---- MODULE Spec2Model ----
(***************************************************************************)
(* Model of the grid sparsifier (SparseComputation/SparseComputation.py)   *)
(* and of the construction of the embedding providers                      *)
(* (sparsecomputation/dimreducer.py).                                      *)
(*                                                                         *)
(* Interpreter: the sources are Python 2 code (float(r)/... to force true  *)
(* division, implicit relative imports in the tests, classic classes).     *)
(* Under Python 2 a numpy integer scalar is an instance of int, so         *)
(*   - the isinstance(array[0], int) test of _index_to_boxe_id passes for  *)
(*     the integer matrix that _rescale_data builds, and                   *)
(*   - float(r) / numpy_integer(0) is evaluated by float.__div__ and       *)
(*     raises ZeroDivisionError,                                           *)
(* whereas float(r) / numpy.float64(0.0) is evaluated by numpy (float64 is *)
(* a subclass of float and its reflected division wins) and yields inf     *)
(* with a warning, no exception.                                           *)
(*                                                                         *)
(* Numbers: matrix entries are whole numbers 0..MaxVal (held as integers   *)
(* or as whole-valued floats, see dtype).  int((v-min)*(float(r)/(max-min)))*)
(* is evaluated in IEEE doubles by the code; for every r <= 5 and          *)
(* max-min <= 12 (all inputs of this model) the double result equals the   *)
(* exact quotient (v-min)*r \div (max-min), which is what Bin computes.    *)
(***************************************************************************)
EXTENDS Integers, Sequences, FiniteSets, TLC

VARIABLES
    pc,             \* position of the client: which call has been made / where it is
    arg,            \* the constructor argument(s) last passed
    gridResolution, \* self.gridResolution (0 while no sparsifier exists)
    data,           \* the matrix handed to the operation in progress
    rescaled,       \* rescaled_data of _get_pairs
    boxes_dict,     \* boxes_dict of _get_pairs
    todo,           \* keys of boxes_dict the outer loop has not visited yet
    box_id,         \* the outer loop's current key (NoBox between boxes)
    inc,            \* 1-based position in itertools.product(range(-1, 2), repeat=n)
    ci,             \* candidates of the current product already examined
    pairs,          \* the pair accumulator
    err,            \* the exception raised ("" if none)
    errAt,          \* the function that raised it
    result,         \* value returned by _get_min / _get_max / _rescale_data called directly
    provider        \* the embedding provider object built by the provider constructors

vars == <<pc, arg, gridResolution, data, rescaled, boxes_dict, todo, box_id,
          inc, ci, pairs, err, errAt, result, provider>>

-----------------------------------------------------------------------------
(* Bounds of the model *)

MaxRows == 2
MaxVal == 1
MaxRes == 4
MaxCols == 4

(* len(data[0]) > 3 *)
MaxDim == 3

-----------------------------------------------------------------------------
(* Python values passed to the constructors: an int, a float (num/den or   *)
(* NaN) or a str.                                                          *)

PyInt(n) == [ty |-> "int", num |-> n, den |-> 1, nan |-> FALSE]
PyFloat(n, d) == [ty |-> "float", num |-> n, den |-> d, nan |-> FALSE]
PyNaN == [ty |-> "float", num |-> 0, den |-> 1, nan |-> TRUE]
PyStr == [ty |-> "str", num |-> 0, den |-> 1, nan |-> FALSE]

\* isinstance(x, int)
IsInt(x) == x.ty = "int"
\* isinstance(x, float) or isinstance(x, int)
IsFloatOrInt(x) == x.ty = "float" \/ x.ty = "int"
\* x < c, x <= c, x > c for a number x and an integer c; every comparison with NaN is False
Lt(x, c) == ~x.nan /\ x.num < c * x.den
Le(x, c) == ~x.nan /\ x.num <= c * x.den
Gt(x, c) == ~x.nan /\ x.num > c * x.den

-----------------------------------------------------------------------------
(* Matrices *)

NoData == [kind |-> "none", dtype |-> "int", rows |-> <<>>]
NotAnArray == [kind |-> "list", dtype |-> "int", rows |-> <<>>]
Array(dt, rs) == [kind |-> "ndarray", dtype |-> dt, rows |-> rs]

\* isinstance(data, np.ndarray)
IsArray(d) == d.kind = "ndarray"

Min2(a, b) == IF a < b THEN a ELSE b

RECURSIVE Pow(_, _)
Pow(b, e) == IF e = 0 THEN 1 ELSE b * Pow(b, e - 1)

Range(s) == {s[i] : i \in 1..Len(s)}

-----------------------------------------------------------------------------
(* Outcome of a call: an exception or a returned value *)

Raise(e, f) == [err |-> e, at |-> f, val |-> <<>>]
Return(v) == [err |-> "", at |-> "", val |-> v]

-----------------------------------------------------------------------------
(* _get_min, _get_max *)

\* for vec in data[j..]: for i in range(n): if vec[i] < minimum[i]: minimum[i] = vec[i]
RECURSIVE ScanMin(_, _, _)
ScanMin(rows, j, minimum) ==
    IF j > Len(rows) THEN minimum
    ELSE ScanMin(rows, j + 1,
                 [i \in 1..Len(minimum) |->
                     IF rows[j][i] < minimum[i] THEN rows[j][i] ELSE minimum[i]])

RECURSIVE ScanMax(_, _, _)
ScanMax(rows, j, maximum) ==
    IF j > Len(rows) THEN maximum
    ELSE ScanMax(rows, j + 1,
                 [i \in 1..Len(maximum) |->
                     IF rows[j][i] > maximum[i] THEN rows[j][i] ELSE maximum[i]])

\* data[0] of a matrix without rows raises IndexError
GetMin(d) ==
    IF ~IsArray(d) THEN Raise("TypeError", "_get_min")
    ELSE IF d.rows = <<>> THEN Raise("IndexError", "_get_min")
    ELSE Return(ScanMin(d.rows, 1, d.rows[1]))

GetMax(d) ==
    IF ~IsArray(d) THEN Raise("TypeError", "_get_max")
    ELSE IF d.rows = <<>> THEN Raise("IndexError", "_get_max")
    ELSE Return(ScanMax(d.rows, 1, d.rows[1]))

-----------------------------------------------------------------------------
(* _rescale_data *)

\* coef[i]: float(r)/(maximum[i]-minimum[i]).  On a constant axis an integer
\* matrix raises ZeroDivisionError, caught (coef 0); a float64 matrix divides
\* in numpy and gives inf.
Coef(dtype, r, mx, mn) ==
    IF mx = mn
    THEN IF dtype = "int" THEN [kind |-> "zero", num |-> 0, den |-> 1]
                          ELSE [kind |-> "inf", num |-> 0, den |-> 1]
    ELSE [kind |-> "ratio", num |-> r, den |-> mx - mn]

\* int(x * num/den) for x >= 0
TruncateHalfUp(x, num, den) == (2 * x * num + den) \div (2 * den)
Truncate(x, num, den) == (x * num) \div den

\* min(., self.gridResolution-1)
NoClamp(v, r) == v
Clamp(v, r) == Min2(v, r - 1)

\* (vec[i]-minimum[i])*coef[i] is NaN when coef[i] is inf (the difference is
\* 0.0 on a constant axis); int(NaN) raises ValueError
BinIsNaN(x, c) == c.kind = "inf" /\ x = 0

Bin(x, c, r) ==
    IF c.kind = "zero" THEN Clamp(0, r) ELSE Clamp(Truncate(x, c.num, c.den), r)

RescaleData(d, r) ==
    IF ~IsArray(d) THEN Raise("TypeError", "_rescale_data")
    ELSE IF d.rows = <<>> THEN Raise("IndexError", "_rescale_data")
    ELSE
      LET n == Len(d.rows[1])
          maximum == GetMax(d).val
          minimum == GetMin(d).val
          coef == [i \in 1..n |-> Coef(d.dtype, r, maximum[i], minimum[i])]
      IN IF \E j \in 1..Len(d.rows) : \E i \in 1..n :
                BinIsNaN(d.rows[j][i] - minimum[i], coef[i])
         THEN Raise("ValueError", "_rescale_data")
         ELSE Return(Array("int",
                 [j \in 1..Len(d.rows) |->
                    [i \in 1..n |-> Bin(d.rows[j][i] - minimum[i], coef[i], r)]]))

-----------------------------------------------------------------------------
(* _index_to_boxe_id, _get_boxes *)

\* result += array[i]*self.gridResolution**i, i = 0..len(array)-1
RECURSIVE SumPowers(_, _, _)
SumPowers(array, r, i) ==
    IF i > Len(array) THEN 0
    ELSE array[i] * Pow(r, i - 1) + SumPowers(array, r, i + 1)

IndexToBoxId(array, r) == SumPowers(array, r, 1)

\* rows are numbered from 0, as in Python
RECURSIVE FillBoxes(_, _, _, _)
FillBoxes(rows, r, i, res) ==
    IF i > Len(rows) THEN res
    ELSE LET id == IndexToBoxId(rows[i], r)
             old == IF id \in DOMAIN res THEN res[id] ELSE <<>>
         IN FillBoxes(rows, r, i + 1,
                [b \in (DOMAIN res) \cup {id} |->
                    IF b = id THEN Append(old, i - 1) ELSE res[b]])

EmptyDict == [b \in {} |-> <<>>]

\* _index_to_boxe_id refuses coordinates that are not int instances
GetBoxes(d, r) ==
    IF ~IsArray(d) THEN Raise("TypeError", "_get_boxes")
    ELSE IF d.rows = <<>> THEN Raise("IndexError", "_get_boxes")
    ELSE IF d.dtype # "int" THEN Raise("TypeError", "_index_to_boxe_id")
    ELSE Return(FillBoxes(d.rows, r, 1, EmptyDict))

-----------------------------------------------------------------------------
(* the loops of _get_pairs *)

\* range(-1, 2)
RangeNoBack == <<0, 1>>
RangeWide == <<-2, -1, 0, 1, 2>>
RangeVals == <<-1, 0, 1>>

\* len(list(itertools.product(range(-1, 2), repeat=n)))
NumIncrements(n) == Pow(Len(RangeVals), n)

\* the j-th tuple (from 1) of itertools.product(range(-1, 2), repeat=n):
\* the last component varies fastest
Increment(j, n) ==
    [i \in 1..n |->
        RangeVals[(((j - 1) \div Pow(Len(RangeVals), n - i)) % Len(RangeVals)) + 1]]

\* id_incremented = box_id + sum of increment[i]*self.gridResolution**i
IdIncrementedInRange(b, j, n, r) ==
    IF \A i \in 1..n :
          ((b \div Pow(r, i - 1)) % r) + Increment(j, n)[i] \in 0..(r - 1)
    THEN b + SumPowers(Increment(j, n), r, 1)
    ELSE -1
IdIncremented(b, j, n, r) == b + SumPowers(Increment(j, n), r, 1)

\* the c-th element (from 1) of itertools.product(A, B)
Candidate(A, B, c) ==
    <<A[((c - 1) \div Len(B)) + 1], B[((c - 1) % Len(B)) + 1]>>

\* if a < b and not ((a, b) in pairs)
AcceptsNoDedup(a, b, acc) == a < b
Accepts(a, b, acc) == a < b /\ <<a, b>> \notin Range(acc)

NoBox == -1

-----------------------------------------------------------------------------
(* Inputs *)

\* gridResolution arguments: integers around the lower limit, 2.0, 2.5, NaN, a str
ResolutionArgs ==
    {PyInt(n) : n \in -1..MaxRes} \cup {PyFloat(2, 1), PyFloat(5, 2), PyNaN, PyStr}

\* rows of width k: every row over 0..MaxVal for k <= 2; for wider rows the
\* constant rows and the rows with MaxVal on one axis only
Points(k) ==
    IF k <= 2 THEN [1..k -> 0..MaxVal]
    ELSE {[i \in 1..k |-> v] : v \in 0..MaxVal}
         \cup {[i \in 1..k |-> IF i = a THEN MaxVal ELSE 0] : a \in 1..k}

Matrices == UNION {[1..n -> Points(k)] : n \in 1..MaxRows, k \in 1..MaxCols}

\* the k = 1 scenario of the specification, and a k = 2 matrix whose rows
\* rescale to the boxes (2,0), (0,1), (1,2) at resolution 3
ScenarioRows == <<<<0>>, <<1>>, <<2>>, <<3>>, <<10>>>>
EdgeRows == <<<<2, 0>>, <<0, 1>>, <<1, 2>>>>

Dtypes == {"int", "float"}

\* non-empty numeric matrices
Datasets == {Array(dt, m) : dt \in Dtypes, m \in Matrices \cup {ScenarioRows, EdgeRows}}

\* a matrix without rows
EmptyArrays == {Array(dt, <<>>) : dt \in Dtypes}

\* what a fit_transform can return: a matrix, or None (DimReducer.fit_transform)
Reduced == Datasets \cup EmptyArrays \cup {NoData}

-----------------------------------------------------------------------------
(* Construction of the embedding providers *)

NoProvider == [cls |-> ""]

\* PCA.__init__: what it raises ("" if nothing)
PCAInit(a) ==
    IF ~IsInt(a.dimLow) THEN "TypeError"
    ELSE IF Lt(a.dimLow, 1) THEN "ValueError"
    ELSE ""

\* ApproximatePCA.__init__: the exception object it returns ("" for None)
ApproximatePCAInit(a) ==
    IF ~IsInt(a.dimLow) THEN "TypeError"
    ELSE IF Lt(a.dimLow, 1) THEN "ValueError"
    ELSE IF ~IsFloatOrInt(a.fracRow) THEN "TypeError"
    ELSE IF Le(a.fracRow, 0) \/ Gt(a.fracRow, 1) THEN "ValueError"
    ELSE IF ~IsFloatOrInt(a.fracCol) THEN "TypeError"
    ELSE IF Le(a.fracCol, 0) \/ Gt(a.fracCol, 1) THEN "ValueError"
    ELSE IF ~IsInt(a.minRow) THEN "TypeError"
    ELSE IF Le(a.minRow, 0) THEN "ValueError"
    ELSE IF ~IsInt(a.minCol) THEN "TypeError"
    ELSE IF Le(a.minCol, 0) THEN "ValueError"
    ELSE ""

\* arguments of the provider constructors
DimArgs == {PyInt(n) : n \in -1..MaxDim} \cup {PyFloat(2, 1), PyStr}
FracArgs ==
    {PyFloat(1, 100), PyFloat(1, 2), PyFloat(1, 1), PyInt(1), PyInt(0),
     PyFloat(0, 1), PyFloat(-1, 2), PyFloat(3, 2), PyNaN, PyStr}
CountArgs == {PyInt(-1), PyInt(0), PyInt(1), PyInt(150), PyFloat(150, 1), PyStr}

ProviderInit ==
    /\ pc = "new_provider"
    /\ arg = [cls |-> ""]
    /\ gridResolution = 0
    /\ data = NoData
    /\ rescaled = NoData
    /\ boxes_dict = EmptyDict
    /\ todo = {}
    /\ box_id = NoBox
    /\ inc = 0
    /\ ci = 0
    /\ pairs = <<>>
    /\ err = ""
    /\ errAt = ""
    /\ result = [op |-> "", val |-> <<>>]
    /\ provider = NoProvider

\* PCA(dimLow)
ConstructPCA ==
    /\ pc = "new_provider"
    /\ \E d \in DimArgs :
        LET a == [cls |-> "PCA", dimLow |-> d]
        IN /\ arg' = a
           /\ IF PCAInit(a) # ""
              THEN /\ pc' = "raised"
                   /\ err' = PCAInit(a)
                   /\ errAt' = "PCA.__init__"
                   /\ UNCHANGED provider
              ELSE /\ pc' = "provider_created"
                   /\ provider' = [cls |-> "PCA", dimLow |-> d]
                   /\ UNCHANGED <<err, errAt>>
    /\ UNCHANGED <<gridResolution, data, rescaled, boxes_dict, todo, box_id, inc,
                   ci, pairs, result>>

\* ApproximatePCA(dimLow, fracRow, fracCol, minRow, minCol): an __init__ that
\* returns anything but None makes the instantiation raise TypeError
ConstructApproximatePCA ==
    /\ pc = "new_provider"
    /\ \E d \in DimArgs : \E fr \in FracArgs : \E fc \in FracArgs :
       \E mr \in CountArgs : \E mc \in CountArgs :
        LET a == [cls |-> "ApproximatePCA", dimLow |-> d, fracRow |-> fr,
                  fracCol |-> fc, minRow |-> mr, minCol |-> mc]
        IN /\ arg' = a
           /\ IF ApproximatePCAInit(a) # ""
              THEN /\ pc' = "raised"
                   /\ err' = "TypeError"
                   /\ errAt' = "ApproximatePCA.__init__"
                   /\ UNCHANGED provider
              ELSE /\ pc' = "provider_created"
                   /\ provider' = a
                   /\ UNCHANGED <<err, errAt>>
    /\ UNCHANGED <<gridResolution, data, rescaled, boxes_dict, todo, box_id, inc,
                   ci, pairs, result>>

ProviderNext ==
    \/ ConstructPCA
    \/ ConstructApproximatePCA

ProviderSpec == ProviderInit /\ [][ProviderNext]_vars

-----------------------------------------------------------------------------
(* State machine of the sparsifier *)

Init ==
    /\ pc = "new"
    /\ arg = PyInt(0)
    /\ gridResolution = 0
    /\ data = NoData
    /\ rescaled = NoData
    /\ boxes_dict = EmptyDict
    /\ todo = {}
    /\ box_id = NoBox
    /\ inc = 0
    /\ ci = 0
    /\ pairs = <<>>
    /\ err = ""
    /\ errAt = ""
    /\ result = [op |-> "", val |-> <<>>]
    /\ provider = NoProvider

\* raise e in function f
Fail(e, f) ==
    /\ pc' = "raised"
    /\ err' = e
    /\ errAt' = f

\* if gridResolution < 1
ResolutionNotNegative(g) == Lt(g, 0)
ResolutionTooSmall(g) == Lt(g, 1)

\* SparseComputation.__init__
Construct ==
    /\ pc = "new"
    /\ \E g \in ResolutionArgs :
        /\ arg' = g
        /\ IF ~IsInt(g) THEN Fail("TypeError", "SparseComputation.__init__") /\ UNCHANGED gridResolution
           ELSE IF ResolutionTooSmall(g)
                THEN Fail("ValueError", "SparseComputation.__init__") /\ UNCHANGED gridResolution
           ELSE /\ gridResolution' = g.num
                /\ pc' = "ready"
                /\ UNCHANGED <<err, errAt>>
    /\ UNCHANGED <<data, rescaled, boxes_dict, todo, box_id, inc, ci, pairs,
                   result, provider>>

\* get_similar_indices up to the call of _get_pairs: the type check of the
\* raw data, then self.dimReducer.fit_transform(data), which raises or returns
GetSimilarIndices ==
    /\ pc = "ready"
    /\ \/ Fail("TypeError", "get_similar_indices") /\ data' = NotAnArray
       \/ Fail("ValueError", "fit_transform") /\ UNCHANGED data
       \/ \E d \in Reduced :
            /\ data' = d
            /\ pc' = "get_pairs"
            /\ UNCHANGED <<err, errAt>>
    /\ UNCHANGED <<arg, gridResolution, rescaled, boxes_dict, todo, box_id, inc,
                   ci, pairs, result, provider>>

\* if len(data[0]) > 3
TooWideOffByOne(n) == n > MaxDim + 1
TooWide(n) == n > MaxDim

\* _get_pairs, the checks before any work
GetPairsChecks ==
    /\ pc = "get_pairs"
    /\ IF ~IsArray(data) THEN Fail("TypeError", "_get_pairs")
       ELSE IF data.rows = <<>> THEN Fail("IndexError", "_get_pairs")
       ELSE IF TooWide(Len(data.rows[1])) THEN Fail("ValueError", "_get_pairs")
       ELSE pc' = "rescale" /\ UNCHANGED <<err, errAt>>
    /\ UNCHANGED <<arg, gridResolution, data, rescaled, boxes_dict, todo, box_id,
                   inc, ci, pairs, result, provider>>

\* rescaled_data = self._rescale_data(data)
Rescale ==
    /\ pc = "rescale"
    /\ LET out == RescaleData(data, gridResolution)
       IN IF out.err # ""
          THEN Fail(out.err, out.at) /\ UNCHANGED rescaled
          ELSE /\ rescaled' = out.val
               /\ pc' = "boxes"
               /\ UNCHANGED <<err, errAt>>
    /\ UNCHANGED <<arg, gridResolution, data, boxes_dict, todo, box_id, inc, ci,
                   pairs, result, provider>>

\* boxes_dict = self._get_boxes(rescaled_data); pairs = []
Boxes ==
    /\ pc = "boxes"
    /\ LET out == GetBoxes(rescaled, gridResolution)
       IN IF out.err # ""
          THEN Fail(out.err, out.at) /\ UNCHANGED <<boxes_dict, todo, pairs>>
          ELSE /\ boxes_dict' = out.val
               /\ todo' = DOMAIN out.val
               /\ pairs' = <<>>
               /\ pc' = "loop"
               /\ UNCHANGED <<err, errAt>>
    /\ UNCHANGED <<arg, gridResolution, data, rescaled, box_id, inc, ci, result,
                   provider>>

\* n = len(data[0])
Width == Len(data.rows[1])

\* the neighbour the inner loop is at
Neighbour == IdIncremented(box_id, inc, Width, gridResolution)

\* number of elements of itertools.product(boxes_dict[box_id], boxes_dict[id_incremented])
NumCandidates ==
    IF Neighbour \in DOMAIN boxes_dict
    THEN Len(boxes_dict[box_id]) * Len(boxes_dict[Neighbour])
    ELSE 0

\* for box_id in boxes_dict: the order in which a dict yields its keys is the
\* interpreter's choice
NextBox ==
    /\ pc = "loop"
    /\ box_id = NoBox
    /\ \E b \in todo :
        /\ box_id' = b
        /\ todo' = todo \ {b}
    /\ inc' = 1
    /\ ci' = 0
    /\ UNCHANGED <<pc, arg, gridResolution, data, rescaled, boxes_dict, pairs,
                   err, errAt, result, provider>>

\* for (a, b) in pairs_list: if a < b and not ((a, b) in pairs): pairs.append((a, b))
EmitPair ==
    /\ pc = "loop"
    /\ box_id # NoBox
    /\ ci < NumCandidates
    /\ LET c == Candidate(boxes_dict[box_id], boxes_dict[Neighbour], ci + 1)
       IN pairs' = IF Accepts(c[1], c[2], pairs) THEN Append(pairs, c) ELSE pairs
    /\ ci' = ci + 1
    /\ UNCHANGED <<pc, arg, gridResolution, data, rescaled, boxes_dict, todo,
                   box_id, inc, err, errAt, result, provider>>

\* the product of this increment is exhausted (or its box is not occupied):
\* next increment, or the end of this box
NextIncrement ==
    /\ pc = "loop"
    /\ box_id # NoBox
    /\ ci = NumCandidates
    /\ IF inc < NumIncrements(Width)
       THEN inc' = inc + 1 /\ UNCHANGED box_id
       ELSE inc' = 0 /\ box_id' = NoBox
    /\ ci' = 0
    /\ UNCHANGED <<pc, arg, gridResolution, data, rescaled, boxes_dict, todo,
                   pairs, err, errAt, result, provider>>

\* return pairs
ReturnPairs ==
    /\ pc = "loop"
    /\ box_id = NoBox
    /\ todo = {}
    /\ pc' = "done"
    /\ UNCHANGED <<arg, gridResolution, data, rescaled, boxes_dict, todo, box_id,
                   inc, ci, pairs, err, errAt, result, provider>>

\* _get_min(data) and _get_max(data) called on their own
CallGetMin ==
    /\ pc = "ready"
    /\ \E d \in Datasets \cup EmptyArrays \cup {NotAnArray} :
        /\ data' = d
        /\ LET out == GetMin(d)
           IN IF out.err # ""
              THEN Fail(out.err, out.at) /\ UNCHANGED result
              ELSE /\ result' = [op |-> "_get_min", val |-> out.val]
                   /\ pc' = "returned"
                   /\ UNCHANGED <<err, errAt>>
    /\ UNCHANGED <<arg, gridResolution, rescaled, boxes_dict, todo, box_id, inc,
                   ci, pairs, provider>>

CallGetMax ==
    /\ pc = "ready"
    /\ \E d \in Datasets \cup EmptyArrays \cup {NotAnArray} :
        /\ data' = d
        /\ LET out == GetMax(d)
           IN IF out.err # ""
              THEN Fail(out.err, out.at) /\ UNCHANGED result
              ELSE /\ result' = [op |-> "_get_max", val |-> out.val]
                   /\ pc' = "returned"
                   /\ UNCHANGED <<err, errAt>>
    /\ UNCHANGED <<arg, gridResolution, rescaled, boxes_dict, todo, box_id, inc,
                   ci, pairs, provider>>

Next ==
    \/ Construct
    \/ GetSimilarIndices
    \/ GetPairsChecks
    \/ Rescale
    \/ Boxes
    \/ NextBox
    \/ EmitPair
    \/ NextIncrement
    \/ ReturnPairs
    \/ CallGetMin
    \/ CallGetMax

Spec == Init /\ [][Next]_vars

-----------------------------------------------------------------------------
(* Properties of the pair list *)

\* row indices of the matrix in progress, from 0
RowIds == 0..(Len(data.rows) - 1)

\* rescaled coordinates of row a
Coord(a) == rescaled.rows[a + 1]

Abs(x) == IF x < 0 THEN -x ELSE x

\* the boxes of rows a and b differ by at most 1 on every axis
Adjacent(a, b) == \A i \in 1..Width : Abs(Coord(a)[i] - Coord(b)[i]) <= 1

\* the difference of the box ids of a and b is the id shift of some offset vector
Aliased(a, b) ==
    \E off \in [1..Width -> {-1, 0, 1}] :
        IndexToBoxId(Coord(b), gridResolution) - IndexToBoxId(Coord(a), gridResolution)
            = SumPowers(off, gridResolution, 1)

C2_NeighbourClosure ==
    pc = "done" =>
        \A a \in RowIds : \A b \in RowIds :
            (a < b /\ Adjacent(a, b)) => <<a, b>> \in Range(pairs)

\* two rows in different boxes, the higher row lower on some axis, are paired
C2_Witness ==
    /\ pc = "done"
    /\ \E a \in RowIds : \E b \in RowIds :
        /\ a < b
        /\ Adjacent(a, b)
        /\ \E i \in 1..Width : Coord(b)[i] < Coord(a)[i]
        /\ <<a, b>> \in Range(pairs)

\* C3: when _get_pairs returns, two rows whose boxes differ by more than 1 on
\* some axis, and whose box ids do not differ by the id shift of any offset
\* vector of {-1,0,1}^k, are in the list in neither order.
C3_NonAdjacentExcluded ==
    pc = "done" =>
        \A a \in RowIds : \A b \in RowIds :
            (a # b /\ ~Adjacent(a, b) /\ ~Aliased(a, b)) =>
                (<<a, b>> \notin Range(pairs) /\ <<b, a>> \notin Range(pairs))

\* a returned, non-empty list that leaves out two rows far apart
C3_Witness ==
    /\ pc = "done"
    /\ pairs # <<>>
    /\ \E a \in RowIds : \E b \in RowIds :
        /\ a # b
        /\ ~Adjacent(a, b)
        /\ ~Aliased(a, b)
        /\ <<a, b>> \notin Range(pairs)
        /\ <<b, a>> \notin Range(pairs)

\* C4: for the one-column matrix [0,1,2,3,10] at resolution 4 the bins are
\* [0,0,0,1,3] and the returned pairs are exactly (0,1),(0,2),(1,2),(0,3),
\* (1,3),(2,3); row 4 is in no pair.
C4_Scenario ==
    (pc = "done" /\ data.rows = ScenarioRows /\ gridResolution = 4) =>
        /\ rescaled.rows = <<<<0>>, <<0>>, <<0>>, <<1>>, <<3>>>>
        /\ Range(pairs) = {<<0, 1>>, <<0, 2>>, <<1, 2>>, <<0, 3>>, <<1, 3>>, <<2, 3>>}
        /\ Len(pairs) = 6
        /\ \A i \in 1..Len(pairs) : pairs[i][1] # 4 /\ pairs[i][2] # 4

\* the scenario has run to its end
C4_Witness ==
    /\ pc = "done"
    /\ data.rows = ScenarioRows
    /\ gridResolution = 4
    /\ <<2, 3>> \in Range(pairs)

\* the matrix in progress is a matrix with at least one row
HasRows == IsArray(data) /\ data.rows # <<>>

\* _rescale_data has returned
IsRescaled == pc \in {"boxes", "loop", "done"}

\* _rescale_data has just returned to _get_pairs
JustRescaled == pc = "boxes"

\* axis i of the matrix in progress is constant
ConstantAxis(i) == GetMax(data).val[i] = GetMin(data).val[i]

\* C5 as stated: when _rescale_data returns, every row whose value on an
\* axis equals the maximum of that axis has bin gridResolution-1 there.
C5_MaxInLastBin ==
    JustRescaled =>
        LET maximum == GetMax(data).val
        IN \A j \in 1..Len(data.rows) : \A i \in 1..Width :
            data.rows[j][i] = maximum[i] =>
                rescaled.rows[j][i] = gridResolution - 1

\* C5 amended: when _rescale_data returns, every row whose value on an
\* axis equals the maximum of that axis has bin gridResolution-1 there,
\* provided the axis is not constant (max > min).
C5_MaxInLastBinOnSpreadAxis ==
    JustRescaled =>
        LET maximum == GetMax(data).val
            minimum == GetMin(data).val
        IN \A j \in 1..Len(data.rows) : \A i \in 1..Width :
            (data.rows[j][i] = maximum[i] /\ maximum[i] > minimum[i]) =>
                rescaled.rows[j][i] = gridResolution - 1

\* a row at the maximum of a spread axis, at a resolution of 2 or more, whose
\* unclamped bin would be gridResolution
C5_Witness ==
    /\ JustRescaled
    /\ gridResolution >= 2
    /\ \E j \in 1..Len(data.rows) : \E i \in 1..Width :
        /\ data.rows[j][i] = GetMax(data).val[i]
        /\ ~ConstantAxis(i)
        /\ Truncate(data.rows[j][i] - GetMin(data).val[i], gridResolution,
                    GetMax(data).val[i] - GetMin(data).val[i]) = gridResolution
        /\ rescaled.rows[j][i] = gridResolution - 1

\* C6: on a matrix with a constant axis _rescale_data does not raise, and
\* once it has returned every row has bin 0 on that axis.
C6_ConstantAxisBinZero ==
    (HasRows /\ \E i \in 1..Width : ConstantAxis(i)) =>
        /\ ~(pc = "raised" /\ errAt = "_rescale_data")
        /\ IsRescaled =>
             \A i \in 1..Width : ConstantAxis(i) =>
                 \A j \in 1..Len(data.rows) : rescaled.rows[j][i] = 0

\* C7: a gridResolution that is not an int raises TypeError and an int below
\* 1 raises ValueError, both in the constructor with no sparsifier and no data
\* in existence; whenever a sparsifier exists its gridResolution is the int
\* passed and is at least 1.
C7_ConstructorValidates ==
    pc # "new" =>
        /\ ~IsInt(arg) =>
             /\ pc = "raised" /\ err = "TypeError"
             /\ errAt = "SparseComputation.__init__"
             /\ gridResolution = 0 /\ data = NoData
        /\ (IsInt(arg) /\ arg.num < 1) =>
             /\ pc = "raised" /\ err = "ValueError"
             /\ errAt = "SparseComputation.__init__"
             /\ gridResolution = 0 /\ data = NoData
        /\ errAt # "SparseComputation.__init__" =>
             /\ IsInt(arg) /\ gridResolution = arg.num /\ gridResolution >= 1

\* the constructor has refused resolution 0
C7_Witness ==
    /\ pc = "raised"
    /\ errAt = "SparseComputation.__init__"
    /\ err = "ValueError"
    /\ arg = PyInt(0)

\* C8: no stage of _get_pairs after its checks ever works on a matrix of more
\* than 3 columns: such a matrix ends in ValueError raised by _get_pairs with
\* nothing rescaled, no box and no pair; and whatever error ends a call, the
\* pair list holds no pair at that point, while a call that returns has
\* finished every box.
C8_ErrorsBeforePairs ==
    /\ pc \in {"rescale", "boxes", "loop", "done"} =>
         (HasRows /\ Width <= MaxDim)
    /\ (pc = "raised" /\ errAt = "_get_pairs" /\ HasRows) =>
         (err = "ValueError" /\ Width > MaxDim)
    /\ pc = "raised" =>
         (pairs = <<>> /\ boxes_dict = EmptyDict /\ todo = {} /\ box_id = NoBox)
    /\ (pc = "raised" /\ errAt \in {"get_similar_indices", "fit_transform", "_get_pairs"}) =>
         rescaled = NoData
    /\ pc = "done" => (todo = {} /\ box_id = NoBox)

\* a matrix of 4 columns has been refused
C8_Witness ==
    /\ pc = "raised"
    /\ errAt = "_get_pairs"
    /\ err = "ValueError"
    /\ HasRows
    /\ Width = MaxDim + 1
    /\ pairs = <<>>

\* C9: _get_min and _get_max raise TypeError on an input that is not a matrix
\* and on a matrix without rows; otherwise they return the per-axis minimum,
\* respectively maximum, over all rows.
C9_ScanValidates ==
    /\ (pc = "raised" /\ errAt \in {"_get_min", "_get_max"}) => err = "TypeError"
    /\ pc = "returned" =>
         /\ HasRows
         /\ \A i \in 1..Width :
              /\ \E j \in 1..Len(data.rows) : data.rows[j][i] = result.val[i]
              /\ \A j \in 1..Len(data.rows) :
                   IF result.op = "_get_min"
                   THEN result.val[i] <= data.rows[j][i]
                   ELSE result.val[i] >= data.rows[j][i]

\* a number in (0, 1]
InUnitInterval(x) == IsFloatOrInt(x) /\ ~x.nan /\ x.num > 0 /\ x.num <= x.den
\* an integer >= 1
IsPositiveInt(x) == IsInt(x) /\ x.num >= 1

\* the settings a provider constructor was given are invalid
InvalidSettings(a) ==
    \/ ~IsPositiveInt(a.dimLow)
    \/ /\ a.cls = "ApproximatePCA"
       /\ \/ ~InUnitInterval(a.fracRow)
          \/ ~InUnitInterval(a.fracCol)
          \/ ~IsPositiveInt(a.minRow)
          \/ ~IsPositiveInt(a.minCol)

\* C10: a provider constructor given an invalid target dimension, sampling
\* fraction or minimum count raises TypeError or ValueError and creates no
\* provider.
C10_ProviderValidates ==
    (pc # "new_provider" /\ InvalidSettings(arg)) =>
        /\ pc = "raised"
        /\ err \in {"TypeError", "ValueError"}
        /\ provider = NoProvider

\* C11: when _get_pairs returns for a two-column matrix at a resolution of 3
\* or more, every row of box (r-1, 0) is paired with every row of box (0, 1),
\* smaller index first, although the two boxes are r-1 > 1 apart on the first
\* axis: their ids r-1 and r differ by the shift of the offset (1, 0), and the
\* lookup tests only whether the shifted id is an occupied box.
C11_EdgeAliasing ==
    (pc = "done" /\ Width = 2 /\ gridResolution >= 3) =>
        \A a \in RowIds : \A b \in RowIds :
            (Coord(a) = <<gridResolution - 1, 0>> /\ Coord(b) = <<0, 1>>) =>
                /\ ~Adjacent(a, b)
                /\ IndexToBoxId(Coord(b), gridResolution)
                     = IndexToBoxId(Coord(a), gridResolution) + 1
                /\ <<Min2(a, b), IF a > b THEN a ELSE b>> \in Range(pairs)

\* a returned list that pairs a row of box (r-1, 0) with a row of box (0, 1)
C11_Witness ==
    /\ pc = "done"
    /\ Width = 2
    /\ gridResolution >= 3
    /\ \E a \in RowIds : \E b \in RowIds :
        /\ Coord(a) = <<gridResolution - 1, 0>>
        /\ Coord(b) = <<0, 1>>
        /\ ~Adjacent(a, b)
        /\ <<Min2(a, b), IF a > b THEN a ELSE b>> \in Range(pairs)

====
